---- MODULE Spec2Model ----
(***************************************************************************)
(* ProjectMonitor ("Overwatch"): the three-party session protocol between  *)
(* the Client Agent (src/client/main.py), the Register Service             *)
(* (src/register/main.py) and the Monitor Server (src/server/main.py) with *)
(* its SQLite store (src/common/database.py).                              *)
(***************************************************************************)
EXTENDS Integers, Sequences, FiniteSets, TLC

\* ------------------------------------------------------------------ bounds
NumChans == 2          \* telemetry connections the Monitor accepts in one run
MaxWire == 1           \* frames in flight on one channel
MaxRecords == 1        \* rows the records table may reach
MaxReplies == 1        \* unread error payloads on one channel

NumAgents == 1         \* Agent processes
MaxSamples == 2        \* stamped samples one client sends on its channel
MaxBurst == 2          \* stamped samples in flight on one channel

Chans == 1..NumChans
Agents == 1..NumAgents
RegPeers == Agents \cup {0}     \* 0: the Monitor's own register channel
NoServer == "None"
Names == {"A1", "A2"}
NoName == "None"
LocalIp == "127.0.0.1"

\* ------------------------------------------------------ program constants
RetryDelay == 5        \* start: asyncio.sleep(5) after a failed pass
ReportInterval == 1    \* self.report_interval
ErrorDelay == 1        \* periodic_report: asyncio.sleep(1) after an error
RegisterHold == 5      \* register_to_register_center: asyncio.sleep(5)

\* ------------------------------------------------------- Monitor: state
VARIABLES
  registered_clients,   \* server/main.py:28  name -> Client (in memory)
  offline_clients,      \* server/main.py:29  list of Client (in memory)
  active_connections,   \* ConnectionManager.active_connections
  db_clients,           \* table clients: name -> [ip, online] (persisted)
  db_records,           \* table records, in insertion order (persisted)
  store_ok,             \* whether the store currently accepts commits
  chan,                 \* transport of each telemetry channel
  wire,                 \* frames sent by the client, not yet received
  replies,              \* error payloads sent to the client, not yet read
  hpc,                  \* position of websocket_endpoint for the channel
  client_name,          \* websocket_endpoint's local client_name
  announced,            \* history: the names CLIENT_ONLINE gave on the channel
  sent                  \* history: frames the client of the channel has numbered

\* ------------------------------------------------ Register Service: state
VARIABLES
  registered_servers,   \* register/main.py:28  addresses, in insertion order
  register_clients,     \* register/main.py:27  registered_clients (names)
  rconn,                \* transport of each peer's register channel
  rwire,                \* frames sent to the Register, not yet received
  rreply,               \* frames sent by the Register, not yet read
  rhpc,                 \* position of the Register's websocket_endpoint
  register_connections, \* the Register's ConnectionManager.active_connections
  last_handled          \* history: the frame the Register handled last

\* ------------------------------------------------------------ Agent: state
VARIABLES
  apc,                  \* position of OverwatchClient.start
  aname,                \* self.client.name
  server,               \* self.server (self.server_url follows from it)
  running,              \* self.running
  tchan,                \* the telemetry channel held by connect_to_server
  rpc,                  \* position of the periodic_report task
  cancel_req,           \* report_task.cancel() called, not yet delivered
  timer,                \* time left in the sleep of start
  rtimer,               \* time left in the sleep of periodic_report
  mreg,                 \* position of the Monitor's register_to_register_center
  mtimer                \* time left in its sleep

monVars == <<registered_clients, offline_clients, active_connections,
             db_clients, db_records, store_ok>>
chanVars == <<chan, wire, replies, hpc, client_name, announced, sent>>
regVars == <<registered_servers, register_clients, rconn, rwire, rreply, rhpc,
             register_connections, last_handled>>
agentVars == <<apc, aname, server, running, tchan, rpc, cancel_req, timer, rtimer>>
mregVars == <<mreg, mtimer>>
vars == <<monVars, chanVars, regVars, agentVars, mregVars>>

\* ------------------------------------------------------------ messages
\* A frame on the telemetry channel.  "full" says whether a report carries
\* the optional memory_* and disk_* fields, "ts" is its timestamp (0 where
\* the time of the sample plays no part).
ClientOnlineMsg(n) ==
  [type |-> "CLIENT_ONLINE", name |-> n, full |-> FALSE, ts |-> 0]
ClientReportMsg(n, f) ==
  [type |-> "CLIENT_REPORT", name |-> n, full |-> f, ts |-> 0]
MalformedMsg == [type |-> "MALFORMED", name |-> NoName, full |-> FALSE, ts |-> 0]
UnknownMsg == [type |-> "CLIENT_REGIST", name |-> NoName, full |-> FALSE, ts |-> 0]

\* (mutant) the report is built under a name drawn anew
get_system_report_NewName(n) ==
  ClientReportMsg(CHOOSE x \in Names : x # n, FALSE)

\* SystemInfo.get_system_report: name, os, load, cpus, timestamp only.
get_system_report(n) == ClientReportMsg(n, FALSE)

\* --------------------------------------------------------------- helpers
Client(n, on) == [name |-> n, ip |-> LocalIp, online |-> on]

RECURSIVE RemoveFirst(_, _)
\* list.remove(x): drops the first occurrence (the caller checks membership).
RemoveFirst(s, x) ==
  IF s = <<>> THEN <<>>
  ELSE IF Head(s) = x THEN Tail(s)
  ELSE <<Head(s)>> \o RemoveFirst(Tail(s), x)

RECURSIVE WithoutName(_, _)
\* [c for c in offline_clients if c.name != name]
WithoutName(s, n) ==
  IF s = <<>> THEN <<>>
  ELSE IF Head(s).name = n THEN WithoutName(Tail(s), n)
  ELSE <<Head(s)>> \o WithoutName(Tail(s), n)

Range(s) == {s[i] : i \in DOMAIN s}

EmptyFn == [k \in {} |-> FALSE]

Drop(f, n) == [k \in (DOMAIN f) \ {n} |-> f[k]]

\* ------------------------------------------------------------- the store
\* ClientDAO.create_or_update(db, name, ip, True)
create_or_update(db, n, on) ==
  [k \in (DOMAIN db) \cup {n} |->
     IF k = n THEN [ip |-> LocalIp, online |-> on] ELSE db[k]]

\* (mutant) the offline transition is not persisted
set_offline_NotPersisted(db, n) == db

\* (mutant) the row of the agent is deleted when its channel closes
set_offline_RowDeleted(db, n) == Drop(db, n)

\* ClientDAO.set_offline(db, name)
set_offline(db, n) ==
  IF n \in DOMAIN db THEN [db EXCEPT ![n].online = FALSE] ELSE db

\* Record's columns memory_* and disk_* are nullable=False: the commit of a
\* row built from a report without them raises IntegrityError.
RecordAccepted(m) == m.full

\* (mutant) the new row is put before the rows already stored
RecordCreate_AtFront(recs, m) ==
  <<[name |-> m.name, full |-> m.full, ts |-> m.ts]>> \o recs

\* RecordDAO.create(db, report.to_db_dict())
RecordCreate(recs, m) ==
  Append(recs, [name |-> m.name, full |-> m.full, ts |-> m.ts])

\* The rows of one agent name, by position in the table (the row id).
RowsOf(recs, n) == {i \in DOMAIN recs : recs[i].name = n}

\* filter(Record.name == name).order_by(Record.timestamp.desc()).first():
\* the rows the query may return.  SQL leaves the order of rows with equal
\* timestamps open, so each of them may come first.
get_latest_by_client(recs, n) ==
  {i \in RowsOf(recs, n) : \A j \in RowsOf(recs, n) : recs[j].ts <= recs[i].ts}

\* db is a sqlalchemy.orm.Session, which has no attribute func
SessionHasFunc == FALSE

\* RecordDAO.get_all_latest: db.func.max(Record.timestamp) is evaluated first
\* and raises AttributeError; the join it was meant to build keeps every row
\* whose timestamp equals the maximum of its name.
get_all_latest(recs) ==
  IF SessionHasFunc
  THEN [error |-> "",
        rows |-> {i \in DOMAIN recs :
                    \A j \in RowsOf(recs, recs[i].name) : recs[j].ts <= recs[i].ts}]
  ELSE [error |-> "AttributeError", rows |-> {}]

\* ClientDAO.get_online: GET /clients
ListOnline == {n \in DOMAIN db_clients : db_clients[n].online}

\* GET /alert: offline rows of the table, then the in-memory offline list
ListOffline ==
  {n \in DOMAIN db_clients : ~db_clients[n].online}
    \cup {offline_clients[i].name : i \in DOMAIN offline_clients}

\* ----------------------------------------------- telemetry channel: client
TMsgs ==
  {ClientOnlineMsg(n) : n \in Names}
    \cup {ClientReportMsg(n, f) : n \in Names, f \in BOOLEAN}
    \cup {MalformedMsg, UnknownMsg}

RECURSIVE CountType(_, _)
CountType(s, t) ==
  IF s = <<>> THEN 0
  ELSE (IF Head(s).type = t THEN 1 ELSE 0) + CountType(Tail(s), t)

\* Full reports in flight to the Monitor, over all channels.
RECURSIVE FullInFlight(_)
FullInFlight(cs) ==
  IF cs = {} THEN 0
  ELSE LET c == CHOOSE x \in cs : TRUE
       IN Cardinality({i \in DOMAIN wire[c] : wire[c][i].full})
            + FullInFlight(cs \ {c})

\* What the environment may put on a channel without leaving the bounds.
Sendable(c, m) ==
  /\ Len(wire[c]) < MaxWire
  /\ m.type = "MALFORMED" =>
       replies[c] + CountType(wire[c], "MALFORMED") < MaxReplies
  /\ m.full => Len(db_records) + FullInFlight(Chans) < MaxRecords

\* websockets.connect(server_url) on the client, manager.connect and
\* client_name = None on the Monitor (the handshake ends with accept()).
WsAccept(c) ==
  /\ chan[c] = "free"
  /\ chan' = [chan EXCEPT ![c] = "open"]
  /\ active_connections' = Append(active_connections, c)
  /\ hpc' = [hpc EXCEPT ![c] = "recv"]
  /\ client_name' = [client_name EXCEPT ![c] = NoName]
  /\ UNCHANGED <<registered_clients, offline_clients, db_clients, db_records,
                 store_ok, wire, replies, announced, sent>>

\* websocket.send(frame) on the client
WsSend(c, m) ==
  /\ chan[c] = "open"
  /\ Sendable(c, m)
  /\ wire' = [wire EXCEPT ![c] = Append(@, m)]
  /\ UNCHANGED <<monVars, chan, replies, hpc, client_name, announced, sent>>

\* The transport closes: by the client, or by the network under both ends.
\* What the client had not read is gone with it.
WsClose(c) ==
  /\ chan[c] = "open"
  /\ chan' = [chan EXCEPT ![c] = "closed"]
  /\ replies' = [replies EXCEPT ![c] = 0]
  /\ UNCHANGED <<monVars, wire, hpc, client_name, announced, sent>>

\* The client reads one payload the Monitor sent.
WsRead(c) ==
  /\ replies[c] > 0
  /\ replies' = [replies EXCEPT ![c] = @ - 1]
  /\ UNCHANGED <<monVars, chan, wire, hpc, client_name, announced, sent>>

\* ------------------------------------------- Monitor: websocket_endpoint
\* (mutant) the handler ends without manager.disconnect
DisconnectHandler_ConnectionKept(c) ==
  /\ hpc' = [hpc EXCEPT ![c] = "returned"]
  /\ UNCHANGED <<active_connections, registered_clients, offline_clients,
                 db_clients>>

\* except WebSocketDisconnect: manager.disconnect(websocket), then the
\* offline transition.  list.remove raises ValueError for an absent element,
\* and the exception leaves the handler before anything else is done.
DisconnectHandler(c) ==
  IF c \notin Range(active_connections)
  THEN /\ hpc' = [hpc EXCEPT ![c] = "ValueError"]
       /\ UNCHANGED <<active_connections, registered_clients,
                      offline_clients, db_clients>>
  ELSE /\ active_connections' = RemoveFirst(active_connections, c)
       /\ hpc' = [hpc EXCEPT ![c] = "returned"]
       /\ LET n == client_name[c] IN
          IF n # NoName /\ n # "" /\ n \in DOMAIN registered_clients
          THEN /\ registered_clients' =
                    [registered_clients EXCEPT ![n].online = FALSE]
               /\ offline_clients' =
                    Append(offline_clients,
                           [registered_clients[n] EXCEPT !.online = FALSE])
               /\ db_clients' =
                    IF store_ok THEN set_offline(db_clients, n) ELSE db_clients
          ELSE UNCHANGED <<registered_clients, offline_clients, db_clients>>

\* CLIENT_ONLINE branch
OnClientOnline(c, m) ==
  /\ registered_clients' =
       [k \in (DOMAIN registered_clients) \cup {m.name} |->
          IF k = m.name THEN Client(m.name, TRUE) ELSE registered_clients[k]]
  /\ client_name' = [client_name EXCEPT ![c] = m.name]
  /\ announced' = [announced EXCEPT ![c] = @ \cup {m.name}]
  /\ db_clients' =
       IF store_ok THEN create_or_update(db_clients, m.name, TRUE)
       ELSE db_clients
  /\ offline_clients' = WithoutName(offline_clients, m.name)
  /\ UNCHANGED <<active_connections, db_records, hpc, replies>>

\* (mutant) the store's exception leaves the branch and is answered like a
\* frame that fails validation
OnClientReport_RejectionAnswered(c, m) ==
  /\ IF store_ok /\ RecordAccepted(m)
     THEN /\ db_records' = RecordCreate(db_records, m)
          /\ UNCHANGED replies
     ELSE /\ replies' = [replies EXCEPT ![c] = @ + 1]
          /\ UNCHANGED db_records
  /\ UNCHANGED <<registered_clients, offline_clients, active_connections,
                 db_clients, hpc, client_name, announced>>

\* CLIENT_REPORT branch: the store's exception is logged and swallowed
OnClientReport(c, m) ==
  /\ db_records' =
       IF store_ok /\ RecordAccepted(m) THEN RecordCreate(db_records, m)
       ELSE db_records
  /\ UNCHANGED <<registered_clients, offline_clients, active_connections,
                 db_clients, hpc, client_name, replies, announced>>

\* except Exception: send {"error": ...} on the channel.  On a transport
\* that is already closed the send is dropped, raises WebSocketDisconnect,
\* or raises another exception, depending on the server stack in use.
ErrorReply(c) ==
  \/ /\ chan[c] = "open"
     /\ replies' = [replies EXCEPT ![c] = @ + 1]
     /\ UNCHANGED <<registered_clients, offline_clients, active_connections,
                    db_clients, db_records, hpc, client_name>>
  \/ /\ chan[c] = "closed"
     /\ UNCHANGED <<registered_clients, offline_clients, active_connections,
                    db_clients, db_records, hpc, client_name, replies>>
  \/ /\ chan[c] = "closed"
     /\ DisconnectHandler(c)
     /\ UNCHANGED <<db_records, client_name, replies>>
  \/ /\ chan[c] = "closed"
     /\ hpc' = [hpc EXCEPT ![c] = "ChannelError"]
     /\ UNCHANGED <<registered_clients, offline_clients, active_connections,
                    db_clients, db_records, client_name, replies>>

\* (mutant) an unknown type is answered like a frame that fails validation
OnUnknownType_Answered(c) == ErrorReply(c) /\ UNCHANGED announced

\* else branch: logger.warning, nothing else
OnUnknownType(c) ==
  UNCHANGED <<registered_clients, offline_clients, active_connections,
              db_clients, db_records, hpc, client_name, replies, announced>>

\* One pass of the receive loop: receive_text returns a frame
HandleFrame(c) ==
  /\ hpc[c] = "recv"
  /\ wire[c] # <<>>
  /\ wire' = [wire EXCEPT ![c] = Tail(@)]
  /\ LET m == Head(wire[c]) IN
       CASE m.type = "CLIENT_ONLINE" -> OnClientOnline(c, m)
         [] m.type = "CLIENT_REPORT" -> OnClientReport(c, m)
         [] m.type = "MALFORMED" -> ErrorReply(c) /\ UNCHANGED announced
         [] OTHER -> OnUnknownType(c)
  /\ UNCHANGED <<store_ok, chan, sent>>

\* receive_text raises WebSocketDisconnect: the frames sent before the
\* closure have been delivered
HandleClosure(c) ==
  /\ hpc[c] = "recv"
  /\ wire[c] = <<>>
  /\ chan[c] = "closed"
  /\ DisconnectHandler(c)
  /\ UNCHANGED <<db_records, store_ok, chan, wire, replies, client_name,
                 announced, sent>>

\* The disconnect of a channel delivered a second time (a double close)
HandleClosureAgain(c) ==
  /\ hpc[c] = "returned"
  /\ DisconnectHandler(c)
  /\ UNCHANGED <<db_records, store_ok, chan, wire, replies, client_name,
                 announced, sent>>

\* (mutant) the row is deleted but the in-memory entry is kept
delete_client_CacheKept(n) ==
  /\ store_ok
  /\ n \in DOMAIN db_clients
  /\ db_clients' = Drop(db_clients, n)
  /\ offline_clients' = WithoutName(offline_clients, n)
  /\ UNCHANGED <<registered_clients, active_connections, db_records, store_ok,
                 chanVars>>

\* GET /delclient
delete_client(n) ==
  /\ store_ok
  /\ n \in DOMAIN db_clients
  /\ db_clients' = Drop(db_clients, n)
  /\ registered_clients' =
       IF n \in DOMAIN registered_clients THEN Drop(registered_clients, n)
       ELSE registered_clients
  /\ offline_clients' = WithoutName(offline_clients, n)
  /\ UNCHANGED <<active_connections, db_records, store_ok, chanVars>>

\* The store starts or stops rejecting commits.
StoreFault ==
  /\ store_ok' = ~store_ok
  /\ UNCHANGED <<registered_clients, offline_clients, active_connections,
                 db_clients, db_records, chanVars>>

\* The Monitor process is killed and started again: lifespan runs init_db,
\* whose create_all keeps the rows of the existing tables.
MonitorRestartCore ==
  /\ \E c \in Chans : hpc[c] # "none"
  /\ registered_clients' = EmptyFn
  /\ offline_clients' = <<>>
  /\ active_connections' = <<>>
  /\ chan' = [c \in Chans |-> IF chan[c] = "free" THEN "free" ELSE "closed"]
  /\ wire' = [c \in Chans |-> <<>>]
  /\ hpc' = [c \in Chans |-> "none"]
  /\ client_name' = [c \in Chans |-> NoName]
  /\ replies' = [c \in Chans |-> 0]
  /\ announced' = [c \in Chans |-> {}]
  /\ UNCHANGED <<db_clients, db_records, store_ok, sent>>

\* ------------------------------------------------------------------ Init
NoFrame == [type |-> "None", name |-> NoName, ip |-> ""]

MonitorInit ==
  /\ registered_clients = EmptyFn
  /\ offline_clients = <<>>
  /\ active_connections = <<>>
  /\ db_clients = EmptyFn
  /\ db_records = <<>>
  /\ store_ok = TRUE

ChanInit ==
  /\ chan = [c \in Chans |-> "free"]
  /\ wire = [c \in Chans |-> <<>>]
  /\ replies = [c \in Chans |-> 0]
  /\ hpc = [c \in Chans |-> "none"]
  /\ client_name = [c \in Chans |-> NoName]
  /\ announced = [c \in Chans |-> {}]
  /\ sent = [c \in Chans |-> 0]

RegInit ==
  /\ registered_servers = <<>>
  /\ register_clients = {}
  /\ rconn = [k \in RegPeers |-> "none"]
  /\ rwire = [k \in RegPeers |-> <<>>]
  /\ rreply = [k \in RegPeers |-> <<>>]
  /\ rhpc = [k \in RegPeers |-> "none"]
  /\ register_connections = <<>>
  /\ last_handled = NoFrame

AgentInit ==
  /\ apc = [a \in Agents |-> "init"]
  /\ aname = [a \in Agents |-> NoName]
  /\ server = [a \in Agents |-> NoServer]
  /\ running = [a \in Agents |-> FALSE]
  /\ tchan = [a \in Agents |-> 0]
  /\ rpc = [a \in Agents |-> "none"]
  /\ cancel_req = [a \in Agents |-> FALSE]
  /\ timer = [a \in Agents |-> 0]
  /\ rtimer = [a \in Agents |-> 0]
  /\ mreg = "connect"
  /\ mtimer = 0

Init == MonitorInit /\ ChanInit /\ RegInit /\ AgentInit

\* ------------------------------------- the Monitor and arbitrary clients
restVars == <<regVars, agentVars, mregVars>>

RawConnect(c) == WsAccept(c) /\ UNCHANGED restVars
RawSend(c, m) == WsSend(c, m) /\ UNCHANGED restVars
TransportClose(c) == WsClose(c) /\ UNCHANGED restVars
RawRead(c) == WsRead(c) /\ UNCHANGED restVars
MonitorReceive(c) == HandleFrame(c) /\ UNCHANGED restVars
MonitorDisconnect(c) == HandleClosure(c) /\ UNCHANGED restVars
DoubleClose(c) == HandleClosureAgain(c) /\ UNCHANGED restVars
DeleteClient(n) == delete_client(n) /\ UNCHANGED restVars
StoreToggle == StoreFault /\ UNCHANGED restVars
MonitorRestart == MonitorRestartCore /\ UNCHANGED restVars

Next ==
  \/ \E c \in Chans : RawConnect(c)
  \/ \E c \in Chans, m \in TMsgs : RawSend(c, m)
  \/ \E c \in Chans : TransportClose(c)
  \/ \E c \in Chans : RawRead(c)
  \/ \E c \in Chans : MonitorReceive(c)
  \/ \E c \in Chans : MonitorDisconnect(c)
  \/ \E c \in Chans : DoubleClose(c)
  \/ \E n \in Names : DeleteClient(n)
  \/ MonitorRestart

Spec == Init /\ [][Next]_vars

\* ... and a store that may reject commits
NextStoreFaults ==
  \/ Next
  \/ StoreToggle

StoreFaultSpec == Init /\ [][NextStoreFaults]_vars

\* ------------------------------------ opens, CLIENT_ONLINE and closures
AnnounceOnline(c, n) == WsSend(c, ClientOnlineMsg(n)) /\ UNCHANGED restVars

NextLifecycle ==
  \/ \E c \in Chans : RawConnect(c)
  \/ \E c \in Chans, n \in Names : AnnounceOnline(c, n)
  \/ \E c \in Chans : TransportClose(c)
  \/ \E c \in Chans : MonitorReceive(c)
  \/ \E c \in Chans : MonitorDisconnect(c)

LifecycleSpec == Init /\ [][NextLifecycle]_vars

\* ---------------------------------------------------- Register Service
ClientRegistMsg(n) == [type |-> "CLIENT_REGIST", name |-> n, ip |-> ""]
ServerOnlineMsg(ip) == [type |-> "SERVER_ONLINE", name |-> NoName, ip |-> ip]

\* json.dumps(server.model_dump()): what the Register sends back
ServerReply(ip) == [kind |-> "server", ip |-> ip]
ErrorPayload == [kind |-> "error", ip |-> ""]

\* Server(**json.loads(response)): an error payload has no ip and is refused
DecodesToServer(r) == r.kind = "server"

\* (mutant) every SERVER_ONLINE adds an entry
PutServer_Appended(servers, ip) == Append(servers, ip)

\* registered_servers[ip] = server: a dict keeps a known key in its place
PutServer(servers, ip) ==
  IF ip \in Range(servers) THEN servers ELSE Append(servers, ip)

\* A peer's register channel can be opened once the Register has finished
\* with the peer's previous one.
RegFree(k) ==
  \/ rconn[k] = "none"
  \/ rconn[k] = "closed" /\ rhpc[k] = "returned"

\* websockets.connect(register_url) on the peer, manager.connect on the
\* Register
RegAccept(k) ==
  /\ RegFree(k)
  /\ rconn' = [rconn EXCEPT ![k] = "open"]
  /\ rwire' = [rwire EXCEPT ![k] = <<>>]
  /\ rreply' = [rreply EXCEPT ![k] = <<>>]
  /\ rhpc' = [rhpc EXCEPT ![k] = "recv"]
  /\ register_connections' = Append(register_connections, k)
  /\ UNCHANGED <<registered_servers, register_clients, last_handled>>

\* except WebSocketDisconnect: manager.disconnect(websocket)
RegisterDisconnectHandler(k) ==
  /\ rhpc' = [rhpc EXCEPT ![k] = "returned"]
  /\ register_connections' = RemoveFirst(register_connections, k)

\* (mutant) the error is answered and the handler leaves its loop
RegisterErrorReply_ThenReturn(k) ==
  /\ rreply' = [rreply EXCEPT ![k] = Append(@, ErrorPayload)]
  /\ RegisterDisconnectHandler(k)

\* except Exception: send {"error": ...} on the channel.  On a transport
\* that is already closed the send is dropped, raises WebSocketDisconnect,
\* or raises another exception, depending on the server stack in use.
RegisterErrorReply(k) ==
  \/ /\ rconn[k] = "open"
     /\ rreply' = [rreply EXCEPT ![k] = Append(@, ErrorPayload)]
     /\ UNCHANGED <<rhpc, register_connections>>
  \/ /\ rconn[k] = "closed"
     /\ UNCHANGED <<rreply, rhpc, register_connections>>
  \/ /\ rconn[k] = "closed"
     /\ RegisterDisconnectHandler(k)
     /\ UNCHANGED rreply
  \/ /\ rconn[k] = "closed"
     /\ rhpc' = [rhpc EXCEPT ![k] = "ChannelError"]
     /\ UNCHANGED <<rreply, register_connections>>

\* (mutant) an error payload is sent when no monitor is known
RegistReply_ErrorWhenNoneKnown(servers) ==
  IF servers # <<>> THEN <<ServerReply(Head(servers))>> ELSE <<ErrorPayload>>

\* if registered_servers: send list(registered_servers.values())[0]
RegistReply(servers) ==
  IF servers # <<>> THEN <<ServerReply(Head(servers))>> ELSE <<>>

\* One pass of the Register's receive loop.  A reply that cannot be sent
\* because the peer has closed the channel raises into except Exception.
RegisterHandle(k) ==
  /\ rhpc[k] = "recv"
  /\ rwire[k] # <<>>
  /\ rwire' = [rwire EXCEPT ![k] = Tail(@)]
  /\ last_handled' = Head(rwire[k])
  /\ LET m == Head(rwire[k]) IN
       CASE m.type = "CLIENT_REGIST" ->
              /\ register_clients' = register_clients \cup {m.name}
              /\ IF RegistReply(registered_servers) = <<>>
                 THEN UNCHANGED <<rreply, rhpc, register_connections>>
                 ELSE IF rconn[k] = "open"
                 THEN /\ rreply' = [rreply EXCEPT
                                      ![k] = @ \o RegistReply(registered_servers)]
                      /\ UNCHANGED <<rhpc, register_connections>>
                 ELSE RegisterErrorReply(k)
              /\ UNCHANGED registered_servers
         [] m.type = "CLIENT_ONLINE" ->
              /\ register_clients' = register_clients \cup {m.name}
              /\ UNCHANGED <<registered_servers, rreply, rhpc,
                             register_connections>>
         [] m.type = "SERVER_ONLINE" ->
              /\ registered_servers' = PutServer(registered_servers, m.ip)
              /\ UNCHANGED <<register_clients, rreply, rhpc,
                             register_connections>>
         [] m.type = "MALFORMED" ->
              /\ RegisterErrorReply(k)
              /\ UNCHANGED <<registered_servers, register_clients>>
         [] OTHER ->
              UNCHANGED <<registered_servers, register_clients, rreply, rhpc,
                          register_connections>>
  /\ UNCHANGED rconn

RegisterReceive(k) ==
  /\ RegisterHandle(k)
  /\ UNCHANGED <<monVars, chanVars, agentVars, mregVars>>

\* receive_text raises WebSocketDisconnect
RegisterDisconnect(k) ==
  /\ rhpc[k] = "recv"
  /\ rwire[k] = <<>>
  /\ rconn[k] = "closed"
  /\ RegisterDisconnectHandler(k)
  /\ UNCHANGED <<registered_servers, register_clients, rconn, rwire, rreply,
                 last_handled>>
  /\ UNCHANGED <<monVars, chanVars, agentVars, mregVars>>

\* The Register Service process is killed and started again while it knows
\* a monitor: the module state is built anew (the directory is lost) and
\* every register channel is closed under its peer.
RegisterRestart ==
  /\ registered_servers # <<>>
  /\ registered_servers' = <<>>
  /\ register_clients' = {}
  /\ register_connections' = <<>>
  /\ rconn' = [k \in RegPeers |-> IF rconn[k] = "open" THEN "closed" ELSE rconn[k]]
  /\ rwire' = [k \in RegPeers |-> <<>>]
  /\ rhpc' = [k \in RegPeers |-> IF rhpc[k] = "none" THEN "none" ELSE "returned"]
  /\ last_handled' = NoFrame
  /\ UNCHANGED rreply
  /\ UNCHANGED <<monVars, chanVars, agentVars, mregVars>>

\* ------------------------- Monitor: register_to_register_center (lifespan)
MRegConnect ==
  /\ mreg = "connect"
  /\ RegAccept(0)
  /\ mreg' = "send"
  /\ UNCHANGED <<mtimer, monVars, chanVars, agentVars>>

\* websockets.connect raises: logged, and the task ends without a retry
MRegConnectFail ==
  /\ mreg = "connect"
  /\ mreg' = "failed"
  /\ UNCHANGED <<mtimer, monVars, chanVars, agentVars, regVars>>

\* send(SERVER_ONLINE), then asyncio.sleep(5); a send on a closed channel
\* raises, and the task ends like after a failed connect
MRegSend ==
  /\ mreg = "send"
  /\ IF rconn[0] = "open"
     THEN /\ rwire' = [rwire EXCEPT ![0] = Append(@, ServerOnlineMsg(LocalIp))]
          /\ mreg' = "sleep"
          /\ mtimer' = RegisterHold
     ELSE /\ mreg' = "failed"
          /\ UNCHANGED <<rwire, mtimer>>
  /\ UNCHANGED <<registered_servers, register_clients, rconn, rreply, rhpc,
                 register_connections, last_handled, monVars, chanVars,
                 agentVars>>

MRegDone ==
  /\ mreg = "sleep"
  /\ mtimer = 0
  /\ rconn' = [rconn EXCEPT ![0] = "closed"]
  /\ mreg' = "done"
  /\ UNCHANGED <<mtimer, registered_servers, register_clients, rwire, rreply,
                 rhpc, register_connections, last_handled, monVars, chanVars,
                 agentVars>>

\* ------------------------------------------------ Agent: OverwatchClient
\* start: the name is drawn once, then the main loop is entered
AgentStart(a) ==
  /\ apc[a] = "init"
  /\ \E n \in Names : aname' = [aname EXCEPT ![a] = n]
  /\ running' = [running EXCEPT ![a] = TRUE]
  /\ apc' = [apc EXCEPT ![a] = "loop"]
  /\ UNCHANGED <<server, tchan, rpc, cancel_req, timer, rtimer>>
  /\ UNCHANGED <<monVars, chanVars, regVars, mregVars>>

\* stop
AgentStop(a) ==
  /\ apc[a] \notin {"init", "stopped"}
  /\ running[a]
  /\ running' = [running EXCEPT ![a] = FALSE]
  /\ UNCHANGED <<apc, aname, server, tchan, rpc, cancel_req, timer, rtimer>>
  /\ UNCHANGED <<monVars, chanVars, regVars, mregVars>>

\* while self.running: false, start returns
AgentLoopExit(a) ==
  /\ apc[a] = "loop"
  /\ ~running[a]
  /\ apc' = [apc EXCEPT ![a] = "stopped"]
  /\ UNCHANGED <<aname, server, running, tchan, rpc, cancel_req, timer, rtimer>>
  /\ UNCHANGED <<monVars, chanVars, regVars, mregVars>>

\* except Exception in start: asyncio.sleep(5)
ToRetrySleep(a) ==
  /\ apc' = [apc EXCEPT ![a] = "retrySleep"]
  /\ timer' = [timer EXCEPT ![a] = RetryDelay]

\* register_to_center: websockets.connect(self.register_url)
AgentRegisterConnect(a) ==
  /\ apc[a] = "loop"
  /\ running[a]
  /\ RegAccept(a)
  /\ apc' = [apc EXCEPT ![a] = "regSend"]
  /\ UNCHANGED <<aname, server, running, tchan, rpc, cancel_req, timer, rtimer>>
  /\ UNCHANGED <<monVars, chanVars, mregVars>>

\* (mutant) the failure of the discovery is logged and not raised again, so
\* start goes on to if self.server
AgentRegisterConnectFail_NotRaised(a) ==
  /\ apc[a] = "loop"
  /\ running[a]
  /\ apc' = [apc EXCEPT ![a] = "connect"]
  /\ UNCHANGED <<aname, server, running, tchan, rpc, cancel_req, timer, rtimer>>
  /\ UNCHANGED <<monVars, chanVars, regVars, mregVars>>

\* ... which raises when the Register Service cannot be reached
AgentRegisterConnectFail(a) ==
  /\ apc[a] = "loop"
  /\ running[a]
  /\ ToRetrySleep(a)
  /\ UNCHANGED <<aname, server, running, tchan, rpc, cancel_req, rtimer>>
  /\ UNCHANGED <<monVars, chanVars, regVars, mregVars>>

\* websocket.send(CLIENT_REGIST)
AgentRegisterSend(a) ==
  /\ apc[a] = "regSend"
  /\ IF rconn[a] = "open"
     THEN /\ rwire' = [rwire EXCEPT ![a] = Append(@, ClientRegistMsg(aname[a]))]
          /\ apc' = [apc EXCEPT ![a] = "regRecv"]
          /\ UNCHANGED timer
     ELSE /\ ToRetrySleep(a)
          /\ UNCHANGED rwire
  /\ UNCHANGED <<aname, server, running, tchan, rpc, cancel_req, rtimer>>
  /\ UNCHANGED <<registered_servers, register_clients, rconn, rreply, rhpc,
                 register_connections, last_handled>>
  /\ UNCHANGED <<monVars, chanVars, mregVars>>

\* response = await websocket.recv(), with no timeout: the call returns
\* when a frame arrives and raises when the channel closes.  Leaving the
\* async with block closes the register channel.
AgentRegisterRecv(a) ==
  /\ apc[a] = "regRecv"
  /\ \/ /\ rreply[a] # <<>>
        /\ rreply' = [rreply EXCEPT ![a] = Tail(@)]
        /\ IF DecodesToServer(Head(rreply[a]))
           THEN /\ server' = [server EXCEPT ![a] = Head(rreply[a]).ip]
                /\ apc' = [apc EXCEPT ![a] = "connect"]
                /\ UNCHANGED timer
           ELSE /\ ToRetrySleep(a)
                /\ UNCHANGED server
     \/ /\ rreply[a] = <<>>
        /\ rconn[a] = "closed"
        /\ ToRetrySleep(a)
        /\ UNCHANGED <<server, rreply>>
  /\ rconn' = [rconn EXCEPT ![a] = "closed"]
  /\ UNCHANGED <<aname, running, tchan, rpc, cancel_req, rtimer>>
  /\ UNCHANGED <<registered_servers, register_clients, rwire, rhpc,
                 register_connections, last_handled>>
  /\ UNCHANGED <<monVars, chanVars, mregVars>>

\* if self.server: connect_to_server(): websockets.connect(self.server_url)
AgentServerConnect(a) ==
  /\ apc[a] = "connect"
  /\ \/ /\ server[a] # NoServer
        /\ \E c \in Chans :
             /\ WsAccept(c)
             /\ tchan' = [tchan EXCEPT ![a] = c]
        /\ apc' = [apc EXCEPT ![a] = "sendOnline"]
     \/ /\ server[a] = NoServer
        /\ apc' = [apc EXCEPT ![a] = "loop"]
        /\ UNCHANGED <<tchan, monVars, chanVars>>
  /\ UNCHANGED <<aname, server, running, rpc, cancel_req, timer, rtimer>>
  /\ UNCHANGED <<regVars, mregVars>>

\* ... which raises when the Monitor cannot be reached
AgentServerConnectFail(a) ==
  /\ apc[a] = "connect"
  /\ server[a] # NoServer
  /\ ToRetrySleep(a)
  /\ UNCHANGED <<aname, server, running, tchan, rpc, cancel_req, rtimer>>
  /\ UNCHANGED <<monVars, chanVars, regVars, mregVars>>

\* finally: report_task.cancel(), then await report_task
EnterFinally(a) ==
  /\ apc' = [apc EXCEPT ![a] = "join"]
  /\ cancel_req' = [cancel_req EXCEPT ![a] = TRUE]

\* The async with block is left: the telemetry channel is closed.
Release(c) ==
  /\ chan' = [chan EXCEPT ![c] = "closed"]
  /\ replies' = [replies EXCEPT ![c] = 0]

\* websocket.send(CLIENT_ONLINE), asyncio.create_task(periodic_report), and
\* the first test of while self.running
AgentSendOnline(a) ==
  /\ apc[a] = "sendOnline"
  /\ LET c == tchan[a] IN
     \/ /\ WsSend(c, ClientOnlineMsg(aname[a]))
        /\ rpc' = [rpc EXCEPT ![a] = "start"]
        /\ IF running[a]
           THEN /\ apc' = [apc EXCEPT ![a] = "recv"]
                /\ cancel_req' = [cancel_req EXCEPT ![a] = FALSE]
           ELSE EnterFinally(a)
        /\ UNCHANGED <<tchan, timer>>
     \/ /\ chan[c] = "closed"
        /\ ToRetrySleep(a)
        /\ tchan' = [tchan EXCEPT ![a] = 0]
        /\ UNCHANGED <<rpc, cancel_req, monVars, chanVars>>
  /\ UNCHANGED <<aname, server, running, rtimer>>
  /\ UNCHANGED <<regVars, mregVars>>

\* (mutant) the closure of the channel does not end the pending recv
RecvRaisesClosed_Ignored(c) == FALSE

\* websocket.recv() raises ConnectionClosed once the channel is closed and
\* nothing is left to read
RecvRaisesClosed(c) == replies[c] = 0 /\ chan[c] = "closed"

\* while self.running: response = await websocket.recv()
\* except ConnectionClosed: ... finally: report_task.cancel()
AgentReceive(a) ==
  /\ apc[a] = "recv"
  /\ LET c == tchan[a] IN
     \/ /\ WsRead(c)
        /\ IF running[a]
           THEN UNCHANGED <<apc, cancel_req>>
           ELSE EnterFinally(a)
     \/ /\ RecvRaisesClosed(c)
        /\ EnterFinally(a)
        /\ UNCHANGED <<monVars, chanVars>>
  /\ UNCHANGED <<aname, server, running, tchan, rpc, timer, rtimer>>
  /\ UNCHANGED <<regVars, mregVars>>

\* (mutant) report_task.cancel() without awaiting the task
ReportTaskFinished_NotAwaited(a) == rpc[a] # "none"

\* await report_task returns once the task has finished; the async with
\* block is left and connect_to_server returns to the main loop
ReportTaskFinished(a) == rpc[a] = "done"

AgentJoin(a) ==
  /\ apc[a] \in {"join", "joinCancelled"}
  /\ ReportTaskFinished(a)
  /\ Release(tchan[a])
  /\ tchan' = [tchan EXCEPT ![a] = 0]
  /\ apc' = [apc EXCEPT ![a] = IF apc[a] = "join" THEN "loop" ELSE "stopped"]
  /\ UNCHANGED <<aname, server, running, rpc, cancel_req, timer, rtimer>>
  /\ UNCHANGED <<monVars, wire, hpc, client_name, announced, sent>>
  /\ UNCHANGED <<regVars, mregVars>>

\* The task that runs start is cancelled while it waits in recv (what
\* asyncio.run does on an interrupt): CancelledError passes through the
\* finally block and then ends start.
AgentInterrupt(a) ==
  /\ apc[a] = "recv"
  /\ apc' = [apc EXCEPT ![a] = "joinCancelled"]
  /\ cancel_req' = [cancel_req EXCEPT ![a] = TRUE]
  /\ UNCHANGED <<aname, server, running, tchan, rpc, timer, rtimer>>
  /\ UNCHANGED <<monVars, chanVars, regVars, mregVars>>

\* (mutant) the sleep after a failed pass returns at once
RetryElapsed_AtOnce(a) == timer[a] >= 0

\* asyncio.sleep(5) returns when its 5 units have passed
RetryElapsed(a) == timer[a] = 0

AgentWake(a) ==
  /\ apc[a] = "retrySleep"
  /\ RetryElapsed(a)
  /\ apc' = [apc EXCEPT ![a] = "loop"]
  /\ UNCHANGED <<aname, server, running, tchan, rpc, cancel_req, timer, rtimer>>
  /\ UNCHANGED <<monVars, chanVars, regVars, mregVars>>

\* ------------------------------------------- Agent: periodic_report task
\* The task is suspended (not yet run, in a sleep that has elapsed, or in a
\* send) and can be resumed.
ReportReady(a) ==
  \/ rpc[a] = "start"
  \/ rpc[a] \in {"sleep", "errSleep"} /\ rtimer[a] = 0

\* (mutant) CancelledError raised in the except handler's sleep is swallowed
\* like any other exception of the tick.
CancelPending_SwallowedInHandler(a) ==
  /\ cancel_req[a]
  /\ rpc[a] \in {"start", "sleep", "send"}

\* A requested cancellation is delivered as CancelledError at the point
\* where the task is suspended: inside the try block it is caught and
\* breaks the loop, inside the except handler's sleep it ends the task.
CancelPending(a) ==
  /\ cancel_req[a]
  /\ rpc[a] \in {"start", "sleep", "errSleep", "send"}

ReportCancelled(a) ==
  /\ CancelPending(a)
  /\ rpc' = [rpc EXCEPT ![a] = "done"]
  /\ rtimer' = [rtimer EXCEPT ![a] = 0]
  /\ UNCHANGED <<apc, aname, server, running, tchan, cancel_req, timer>>
  /\ UNCHANGED <<monVars, chanVars, regVars, mregVars>>

\* await websocket.send(CLIENT_REPORT), then asyncio.sleep(report_interval);
\* a send on a closed channel raises, and except Exception sleeps 1
ReportSend(a) ==
  LET c == tchan[a]
      m == get_system_report(aname[a])
  IN \/ /\ WsSend(c, m)
        /\ rpc' = [rpc EXCEPT ![a] = "sleep"]
        /\ rtimer' = [rtimer EXCEPT ![a] = ReportInterval]
     \/ /\ chan[c] = "open"
        /\ ~Sendable(c, m)
        /\ rpc' = [rpc EXCEPT ![a] = "send"]
        /\ UNCHANGED <<rtimer, monVars, chanVars>>
     \/ /\ chan[c] = "closed"
        /\ rpc' = [rpc EXCEPT ![a] = "errSleep"]
        /\ rtimer' = [rtimer EXCEPT ![a] = ErrorDelay]
        /\ UNCHANGED <<monVars, chanVars>>

\* One pass of while self.running
ReportRun(a) ==
  /\ ReportReady(a)
  /\ ~CancelPending(a)
  /\ IF running[a]
     THEN ReportSend(a)
     ELSE /\ rpc' = [rpc EXCEPT ![a] = "done"]
          /\ rtimer' = [rtimer EXCEPT ![a] = 0]
          /\ UNCHANGED <<monVars, chanVars>>
  /\ UNCHANGED <<apc, aname, server, running, tchan, cancel_req, timer>>
  /\ UNCHANGED <<regVars, mregVars>>

\* The send that was suspended goes on.
ReportSendResume(a) ==
  /\ rpc[a] = "send"
  /\ ~CancelPending(a)
  /\ Sendable(tchan[a], get_system_report(aname[a])) \/ chan[tchan[a]] = "closed"
  /\ ReportSend(a)
  /\ UNCHANGED <<apc, aname, server, running, tchan, cancel_req, timer>>
  /\ UNCHANGED <<regVars, mregVars>>

\* (mutant) the next tick is tried at once
SwallowTickError_RetryAtOnce(a) ==
  /\ rpc' = [rpc EXCEPT ![a] = "errSleep"]
  /\ rtimer' = [rtimer EXCEPT ![a] = 0]

\* except Exception: logger.error, then asyncio.sleep(1)
SwallowTickError(a) ==
  /\ rpc' = [rpc EXCEPT ![a] = "errSleep"]
  /\ rtimer' = [rtimer EXCEPT ![a] = ErrorDelay]

\* get_system_report or Report(**report_data) raises: except Exception
ReportTickError(a) ==
  /\ ReportReady(a)
  /\ ~CancelPending(a)
  /\ running[a]
  /\ SwallowTickError(a)
  /\ UNCHANGED <<apc, aname, server, running, tchan, cancel_req, timer>>
  /\ UNCHANGED <<monVars, chanVars, regVars, mregVars>>

\* --------------------------------------------------------------- time
\* One time unit passes for every sleep in progress.
Sleeping ==
  \/ \E a \in Agents : apc[a] = "retrySleep" /\ timer[a] > 0
  \/ \E a \in Agents : rpc[a] \in {"sleep", "errSleep"} /\ rtimer[a] > 0
  \/ mreg = "sleep" /\ mtimer > 0

Dec(t) == IF t > 0 THEN t - 1 ELSE 0

Tick ==
  /\ Sleeping
  /\ timer' = [a \in Agents |-> Dec(timer[a])]
  /\ rtimer' = [a \in Agents |-> Dec(rtimer[a])]
  /\ mtimer' = Dec(mtimer)
  /\ UNCHANGED <<apc, aname, server, running, tchan, rpc, cancel_req, mreg>>
  /\ UNCHANGED <<monVars, chanVars, regVars>>

\* -------------------------------- Agents, Register Service and Monitor
NextNoFailure ==
  \/ \E a \in Agents : AgentStart(a)
  \/ \E a \in Agents : AgentRegisterConnect(a)
  \/ \E a \in Agents : AgentRegisterSend(a)
  \/ \E a \in Agents : AgentRegisterRecv(a)
  \/ \E a \in Agents : AgentServerConnect(a)
  \/ \E a \in Agents : AgentSendOnline(a)
  \/ \E a \in Agents : ReportRun(a)
  \/ \E a \in Agents : ReportSendResume(a)
  \/ \E k \in RegPeers : RegisterReceive(k)
  \/ \E k \in RegPeers : RegisterDisconnect(k)
  \/ \E c \in Chans : MonitorReceive(c)
  \/ MRegConnect
  \/ MRegSend
  \/ MRegDone
  \/ Tick

NextSystem ==
  \/ NextNoFailure
  \/ \E a \in Agents : AgentRegisterConnectFail(a)
  \/ \E a \in Agents : AgentServerConnectFail(a)
  \/ \E a \in Agents : AgentReceive(a)
  \/ \E a \in Agents : AgentJoin(a)
  \/ \E a \in Agents : AgentWake(a)
  \/ \E a \in Agents : AgentStop(a)
  \/ \E a \in Agents : AgentInterrupt(a)
  \/ \E a \in Agents : AgentLoopExit(a)
  \/ \E a \in Agents : ReportCancelled(a)
  \/ \E a \in Agents : ReportTickError(a)
  \/ \E c \in Chans : TransportClose(c)
  \/ \E c \in Chans : MonitorDisconnect(c)
  \/ MRegConnectFail

AgentSpec == Init /\ [][NextSystem]_vars

\* Without failures every process keeps taking its steps: the event loops
\* run every task that is ready, and time passes.
Fairness ==
  /\ \A a \in Agents :
       WF_vars(AgentStart(a) \/ AgentRegisterConnect(a) \/ AgentRegisterSend(a)
                 \/ AgentRegisterRecv(a) \/ AgentServerConnect(a)
                 \/ AgentSendOnline(a))
  /\ \A a \in Agents : WF_vars(ReportRun(a) \/ ReportSendResume(a))
  /\ \A k \in RegPeers : WF_vars(RegisterReceive(k) \/ RegisterDisconnect(k))
  /\ \A c \in Chans : WF_vars(MonitorReceive(c))
  /\ WF_vars(MRegConnect \/ MRegSend \/ MRegDone)
  /\ WF_vars(Tick)

FairSpec == Init /\ [][NextNoFailure]_vars /\ Fairness

\* Failures and shutdown requests may happen at any time; what is up to the
\* programs themselves keeps running: each coroutine that can go on does,
\* and time passes.
SystemFairness ==
  /\ \A a \in Agents :
       WF_vars(AgentStart(a) \/ AgentRegisterConnect(a) \/ AgentRegisterSend(a)
                 \/ AgentRegisterRecv(a) \/ AgentServerConnect(a)
                 \/ AgentSendOnline(a) \/ AgentReceive(a) \/ AgentJoin(a)
                 \/ AgentWake(a) \/ AgentLoopExit(a))
  /\ \A a \in Agents :
       WF_vars(ReportRun(a) \/ ReportSendResume(a) \/ ReportCancelled(a))
  /\ \A k \in RegPeers : WF_vars(RegisterReceive(k) \/ RegisterDisconnect(k))
  /\ \A c \in Chans : WF_vars(MonitorReceive(c) \/ MonitorDisconnect(c))
  /\ WF_vars(MRegConnect \/ MRegSend \/ MRegDone)
  /\ WF_vars(Tick)

SystemFairSpec == Init /\ [][NextSystem]_vars /\ SystemFairness

\* ------------------- agents that stream stamped samples to the Monitor
\* Every agent process has a name of its own (Client.create_random_name).
SampleName(c) == "A" \o ToString(c)

\* One tick of a report loop: the sample carries every field and is stamped
\* in the order the agent generates its samples.
StampedReport(c) ==
  [type |-> "CLIENT_REPORT", name |-> SampleName(c), full |-> TRUE,
   ts |-> sent[c] + 1]

SendSample(c) ==
  /\ chan[c] = "open"
  /\ Len(wire[c]) < MaxBurst
  /\ sent[c] < MaxSamples
  /\ wire' = [wire EXCEPT ![c] = Append(@, StampedReport(c))]
  /\ sent' = [sent EXCEPT ![c] = @ + 1]
  /\ UNCHANGED <<monVars, chan, replies, hpc, client_name, announced>>
  /\ UNCHANGED restVars

NextStreams ==
  \/ \E c \in Chans : RawConnect(c)
  \/ \E c \in Chans : AnnounceOnline(c, SampleName(c))
  \/ \E c \in Chans : SendSample(c)
  \/ \E c \in Chans : TransportClose(c)
  \/ \E c \in Chans : MonitorReceive(c)
  \/ \E c \in Chans : MonitorDisconnect(c)

StreamSpec == Init /\ [][NextStreams]_vars

\* ... while the store may reject commits
NextFaultyStreams ==
  \/ NextStreams
  \/ StoreToggle

FaultyStreamSpec == Init /\ [][NextFaultyStreams]_vars

\* ------------------------------- the encoding of a sample on the wire
\* Python values: a tag and a tuple.  Floats are counted in tenths, a
\* datetime is <<milliseconds, microseconds below the millisecond, aware>>.
PyNone == [t |-> "None", v |-> <<>>]
PyFloat(x) == [t |-> "float", v |-> <<x>>]
PyInt(n) == [t |-> "int", v |-> <<n>>]
PyStr(x) == [t |-> "str", v |-> x]
PyDateTime(d) == [t |-> "datetime", v |-> d]
Invalid == [t |-> "ValidationError", v |-> <<>>]

\* JSON text: null, a number written with or without a decimal point, a
\* string
JNull == [t |-> "null", v |-> <<>>]
JNumber(point, x) == [t |-> "number", v |-> <<point, x>>]
JString(x) == [t |-> "string", v |-> x]

OptFields ==
  {"memory_total", "memory_used", "memory_percent",
   "disk_total", "disk_used", "disk_percent"}

ReportFields == {"name", "os", "load", "cpus", "timestamp"} \cup OptFields

\* (mutant) the timestamp is written to the millisecond only
isoformat_Milliseconds(d) == <<d[1], 0, d[3]>>

\* datetime.isoformat(): date, time with the microseconds, and the offset of
\* an aware value
isoformat(d) == <<d[1], d[2], d[3]>>

\* Command.create_client_report: report.model_dump(), with a timestamp that
\* is present replaced by its isoformat() string
create_client_report(r) ==
  [f \in ReportFields |->
     IF f = "timestamp" /\ r[f].t = "datetime"
     THEN PyStr(isoformat(r[f].v))
     ELSE r[f]]

\* json.dumps(..., default=str) on one value
json_dumps(x) ==
  CASE x.t = "None" -> JNull
    [] x.t = "float" -> JNumber(1, x.v[1])
    [] x.t = "int" -> JNumber(0, x.v[1])
    [] x.t = "str" -> JString(x.v)
    [] x.t = "datetime" -> JString(x.v)

\* json.loads on one value
json_loads(j) ==
  CASE j.t = "null" -> PyNone
    [] j.t = "number" -> IF j.v[1] = 1 THEN PyFloat(j.v[2]) ELSE PyInt(j.v[2])
    [] j.t = "string" -> PyStr(j.v)

\* pydantic's validation of the fields of Report
AsFloat(x) ==
  CASE x.t = "float" -> x
    [] x.t = "int" -> PyFloat(x.v[1] * 10)
    [] OTHER -> Invalid

AsInt(x) ==
  CASE x.t = "int" -> x
    [] x.t = "float" -> IF x.v[1] % 10 = 0 THEN PyInt(x.v[1] \div 10) ELSE Invalid
    [] OTHER -> Invalid

AsStr(x) == IF x.t = "str" THEN x ELSE Invalid

AsOptional(x, y) == IF x.t = "None" THEN PyNone ELSE y

AsDateTime(x) ==
  CASE x.t = "datetime" -> x
    [] x.t = "str" -> IF Len(x.v) = 3 THEN PyDateTime(x.v) ELSE Invalid
    [] x.t = "int" -> PyDateTime(<<x.v[1], 0, 1>>)
    [] OTHER -> Invalid

\* Report(**report_data)
Report(d) ==
  [f \in ReportFields |->
     CASE f \in {"name", "os"} -> AsStr(d[f])
       [] f = "load" -> AsFloat(d[f])
       [] f = "cpus" -> AsInt(d[f])
       [] f = "timestamp" -> AsOptional(d[f], AsDateTime(d[f]))
       [] OTHER -> AsOptional(d[f], AsFloat(d[f]))]

ReportValid(r) == \A f \in ReportFields : r[f].t # "ValidationError"

\* Agent: json.dumps(create_client_report(report).model_dump(), default=str)
EncodeReport(r) ==
  LET d == create_client_report(r)
  IN [f \in ReportFields |-> json_dumps(d[f])]

\* Monitor: Report(**command.contents.get("report")) after json.loads
DecodeReport(j) == Report([f \in ReportFields |-> json_loads(j[f])])

\* Record(**report.to_db_dict()) can be committed: no NOT NULL column is None
AllOptionalPresent(r) == \A f \in OptFields : r[f].t # "None"

\* The samples an agent may build: SystemInfo.get_system_report leaves the
\* optional fields out and stamps integer milliseconds; other producers fill
\* the memory fields or all of them, and stamp any datetime or none.
SampleLoads == {15, 20}
SampleTimes ==
  {PyNone, PyInt(1), PyDateTime(<<1, 1, 1>>), PyDateTime(<<0, 1, 0>>)}
SamplePresent == {{}, {"memory_total", "memory_used", "memory_percent"}, OptFields}

SampleData(c, l, p, ts) ==
  [f \in ReportFields |->
     CASE f = "name" -> PyStr(<<SampleName(c)>>)
       [] f = "os" -> PyStr(<<"x86_64Linux">>)
       [] f = "load" -> PyFloat(l)
       [] f = "cpus" -> PyInt(4)
       [] f = "timestamp" -> ts
       [] OTHER -> IF f \in p THEN PyFloat(5) ELSE PyNone]

\* The frame as the Monitor takes it: what it decodes decides how the frame
\* is handled; the sample the agent built travels along as history.
ReportFrame(j, r) ==
  LET back == DecodeReport(j) IN
  IF ReportValid(back)
  THEN [type |-> "CLIENT_REPORT", name |-> back["name"].v[1],
        full |-> AllOptionalPresent(back), ts |-> 0,
        contents |-> j, orig |-> r]
  ELSE [type |-> "MALFORMED", name |-> NoName, full |-> FALSE, ts |-> 0,
        contents |-> j, orig |-> r]

\* periodic_report: report = Report(**report_data), then the frame is sent
SendEncoded(c, l, p, ts) ==
  LET r == Report(SampleData(c, l, p, ts)) IN
  /\ ReportValid(r)
  /\ WsSend(c, ReportFrame(EncodeReport(r), r))
  /\ UNCHANGED restVars

NextCodec ==
  \/ \E c \in Chans : RawConnect(c)
  \/ \E c \in Chans : AnnounceOnline(c, SampleName(c))
  \/ \E c \in Chans, l \in SampleLoads, p \in SamplePresent, ts \in SampleTimes :
       SendEncoded(c, l, p, ts)
  \/ \E c \in Chans : TransportClose(c)
  \/ \E c \in Chans : MonitorReceive(c)
  \/ \E c \in Chans : MonitorDisconnect(c)

CodecSpec == Init /\ [][NextCodec]_vars

\* ------------------------ the Register Service and arbitrary peers
RAddrs == {LocalIp, "10.0.0.2"}

RegClientOnlineMsg(n) == [type |-> "CLIENT_ONLINE", name |-> n, ip |-> ""]
RegMalformedMsg == [type |-> "MALFORMED", name |-> NoName, ip |-> ""]
RegUnknownMsg == [type |-> "CLIENT_REPORT", name |-> NoName, ip |-> ""]

RMsgs ==
  {ClientRegistMsg(n) : n \in Names}
    \cup {RegClientOnlineMsg(n) : n \in Names}
    \cup {ServerOnlineMsg(ip) : ip \in RAddrs}
    \cup {RegMalformedMsg, RegUnknownMsg}

\* Frames in flight on a register channel that will be answered.
RECURSIVE CountAnswered(_)
CountAnswered(w) ==
  IF w = <<>> THEN 0
  ELSE (IF Head(w).type \in {"CLIENT_REGIST", "MALFORMED"} THEN 1 ELSE 0)
         + CountAnswered(Tail(w))

\* What a peer may put on a register channel without leaving the bounds.
RegSendable(k, m) ==
  /\ Len(rwire[k]) < MaxWire
  /\ m.type \in {"CLIENT_REGIST", "MALFORMED"} =>
       Len(rreply[k]) + CountAnswered(rwire[k]) < MaxReplies

otherVars == <<monVars, chanVars, agentVars, mregVars>>

RegPeerConnect(k) == RegAccept(k) /\ UNCHANGED otherVars

RegPeerSend(k, m) ==
  /\ rconn[k] = "open"
  /\ RegSendable(k, m)
  /\ rwire' = [rwire EXCEPT ![k] = Append(@, m)]
  /\ UNCHANGED <<registered_servers, register_clients, rconn, rreply, rhpc,
                 register_connections, last_handled, otherVars>>

\* The peer reads one payload the Register sent.
RegPeerRead(k) ==
  /\ rreply[k] # <<>>
  /\ rreply' = [rreply EXCEPT ![k] = Tail(@)]
  /\ UNCHANGED <<registered_servers, register_clients, rconn, rwire, rhpc,
                 register_connections, last_handled, otherVars>>

\* The peer closes its channel; what it had not read is gone with it.
RegPeerClose(k) ==
  /\ rconn[k] = "open"
  /\ rconn' = [rconn EXCEPT ![k] = "closed"]
  /\ rreply' = [rreply EXCEPT ![k] = <<>>]
  /\ UNCHANGED <<registered_servers, register_clients, rwire, rhpc,
                 register_connections, last_handled, otherVars>>

NextRegister ==
  \/ \E k \in RegPeers : RegPeerConnect(k)
  \/ \E k \in RegPeers, m \in RMsgs : RegPeerSend(k, m)
  \/ \E k \in RegPeers : RegPeerRead(k)
  \/ \E k \in RegPeers : RegPeerClose(k)
  \/ \E k \in RegPeers : RegisterReceive(k)
  \/ \E k \in RegPeers : RegisterDisconnect(k)

RegisterSpec == Init /\ [][NextRegister]_vars

\* ------------------------- frames whose type tag the receiver does not know
\* To the Monitor CLIENT_REGIST and SERVER_ONLINE are unknown tags.
UnknownServerMsg ==
  [type |-> "SERVER_ONLINE", name |-> NoName, full |-> FALSE, ts |-> 0]

UnknownTMsgs == {UnknownMsg, UnknownServerMsg}

\* A client sends a well-formed command with such a tag, and counts it.
SendUnknownTag(c, m) ==
  /\ chan[c] = "open"
  /\ Sendable(c, m)
  /\ sent[c] < MaxSamples
  /\ wire' = [wire EXCEPT ![c] = Append(@, m)]
  /\ sent' = [sent EXCEPT ![c] = @ + 1]
  /\ UNCHANGED <<monVars, chan, replies, hpc, client_name, announced>>
  /\ UNCHANGED restVars

\* To the Register Service CLIENT_REPORT is an unknown tag.
TagRMsgs == {RegUnknownMsg, ServerOnlineMsg(LocalIp)}

NextTags ==
  \/ \E c \in Chans : RawConnect(c)
  \/ \E c \in Chans : AnnounceOnline(c, SampleName(c))
  \/ \E c \in Chans, m \in UnknownTMsgs : SendUnknownTag(c, m)
  \/ \E c \in Chans : TransportClose(c)
  \/ \E c \in Chans : MonitorReceive(c)
  \/ \E c \in Chans : MonitorDisconnect(c)
  \/ \E k \in Agents : RegPeerConnect(k)
  \/ \E k \in Agents, m \in TagRMsgs : RegPeerSend(k, m)
  \/ \E k \in Agents : RegPeerClose(k)
  \/ \E k \in Agents : RegisterReceive(k)
  \/ \E k \in Agents : RegisterDisconnect(k)

TagSpec == Init /\ [][NextTags]_vars

\* ------------------- a Register Service that may be down or start again
NextRegistry ==
  \/ NextNoFailure
  \/ RegisterRestart
  \/ MRegConnectFail
  \/ \E a \in Agents : AgentRegisterConnectFail(a)
  \/ \E a \in Agents : AgentWake(a)

RegistryFairness ==
  /\ Fairness
  /\ \A a \in Agents : WF_vars(AgentWake(a))

RegistryFairSpec == Init /\ [][NextRegistry]_vars /\ RegistryFairness

\* ------------------------------------ discovery against a failing peer
\* What answers on the register channel is not a server record (an error
\* payload, or anything json.loads / Server(**server_data) refuses).
UndecodableReply(a) ==
  /\ apc[a] = "regRecv"
  /\ rconn[a] = "open"
  /\ rreply[a] = <<>>
  /\ rreply' = [rreply EXCEPT ![a] = <<ErrorPayload>>]
  /\ UNCHANGED <<registered_servers, register_clients, rconn, rwire, rhpc,
                 register_connections, last_handled, otherVars>>

NextDiscovery ==
  \/ NextRegistry
  \/ \E a \in Agents : AgentServerConnectFail(a)
  \/ \E a \in Agents : UndecodableReply(a)

DiscoveryFairSpec == Init /\ [][NextDiscovery]_vars /\ RegistryFairness

\* ============================================================== claims
\* Every frame sent and every closure has been processed by its handler.
Settled ==
  \A c \in Chans :
    /\ wire[c] = <<>>
    /\ chan[c] = "closed" => hpc[c] # "recv"

\* C1: after each event has been processed, an agent name is listed online
\* if and only if at least one open telemetry channel has announced it with
\* CLIENT_ONLINE.  (Checked over opens, CLIENT_ONLINE frames and closures.)
C1_OnlineIffLiveChannel ==
  Settled =>
    \A n \in Names :
      n \in ListOnline <=>
        \E c \in Chans : chan[c] = "open" /\ n \in announced[c]

\* C2: after the Monitor has started again and before any telemetry channel
\* has been accepted by the new process, list-online returns no agent.
C2_NoOnlineAcrossRestart ==
  (\A c \in Chans : hpc[c] = "none") => ListOnline = {}

\* C5: the handling of a CLIENT_REPORT that carries the required fields
\* appends exactly one sample to the Report Store (the store accepting
\* writes), whether or not the optional fields are present.
C5_EveryReportStored ==
  [][\A c \in Chans :
       ( /\ hpc[c] = "recv" /\ hpc'[c] = "recv"
         /\ wire[c] # <<>> /\ wire'[c] = Tail(wire[c])
         /\ Head(wire[c]).type = "CLIENT_REPORT"
         /\ store_ok )
       => db_records' = Append(db_records,
                               [name |-> Head(wire[c]).name,
                                full |-> Head(wire[c]).full,
                                ts |-> Head(wire[c]).ts])]_vars

\* C6: processing the disconnect of a channel a second time is a no-op
\* that raises no error.
C6_DoubleCloseNoError ==
  \A c \in Chans : hpc[c] # "ValueError"

\* C7: no agent identity is deleted while a telemetry channel that
\* announced it is still open with its handler accepting reports.
C7_DeletedOnlyWhenOffline ==
  \A c \in Chans : \A n \in announced[c] :
    (chan[c] = "open" /\ hpc[c] = "recv")
      => (n \in DOMAIN db_clients \/ n \in DOMAIN registered_clients)

\* C8: when the handling of a channel has ended with a channel error, the
\* agent of that session is not listed online any more (unless another open
\* channel has announced it).
C8_OfflineOnChannelError ==
  \A c \in Chans :
    (hpc[c] = "ChannelError" /\ client_name[c] # NoName
       /\ ~\E d \in Chans : chan[d] = "open" /\ client_name[c] \in announced[d])
      => client_name[c] \notin ListOnline


\* C3: an Agent that waits for the reply to a CLIENT_REGIST the Register
\* Service has consumed without replying (no monitor known, channel open)
\* eventually leaves the wait and goes to the retry delay.
NoReplyWait(a) ==
  /\ apc[a] = "regRecv"
  /\ rconn[a] = "open"
  /\ rwire[a] = <<>>
  /\ rreply[a] = <<>>

C3_NoReplyThenRetry ==
  \A a \in Agents : NoReplyWait(a) ~> (apc[a] = "retrySleep")

\* C4: with no failures, every Agent eventually holds the Monitor's address
\* and is eventually listed online by the Monitor.
C4_EventuallyOnline ==
  \A a \in Agents : <>(server[a] = LocalIp /\ aname[a] \in ListOnline)

\* C9: once the cancellation of the report loop has been requested, the
\* report loop puts no further CLIENT_REPORT on the telemetry channel.
C9_NoReportAfterCancel ==
  [][\A a \in Agents :
       (cancel_req[a] /\ tchan[a] # 0)
         => wire'[tchan[a]] #
              Append(wire[tchan[a]], get_system_report(aname[a]))]_vars

\* A cancellation was requested of a report loop that had sent a report,
\* and the loop has ended.
C9_Witness ==
  \E a \in Agents :
    /\ apc[a] \in {"join", "joinCancelled"}
    /\ cancel_req[a]
    /\ rpc[a] = "done"
    /\ chan[tchan[a]] = "open"
    /\ wire[tchan[a]] = <<get_system_report(aname[a])>>

\* C10: a report loop is alive only while its Agent is in Streaming and
\* still holds the telemetry channel: when the Agent has left Streaming
\* (channel released, next discovery possible) the task has finished.
ReportLoopAlive(a) == rpc[a] \notin {"none", "done"}

C10_ReportLoopJoinedBeforeRelease ==
  \A a \in Agents :
    ReportLoopAlive(a)
      => (apc[a] \in {"recv", "join", "joinCancelled"} /\ tchan[a] # 0)

\* An Agent has left Streaming through the finally block: cancellation was
\* requested, the task has finished, the channel is released.
C10_Witness ==
  \E a \in Agents :
    /\ apc[a] = "loop"
    /\ cancel_req[a]
    /\ rpc[a] = "done"
    /\ tchan[a] = 0
    /\ \E c \in Chans : chan[c] = "closed" /\ aname[a] \in announced[c]

\* C11: once stop() has been called on a started Agent, whatever wait the
\* Agent is blocked in, start() eventually returns, with the report loop
\* finished and the telemetry channel released.
C11_StopInterruptsWaits ==
  \A a \in Agents :
    (~running[a] /\ apc[a] # "init")
      ~> (apc[a] = "stopped" /\ ~ReportLoopAlive(a) /\ tchan[a] = 0)

\* C12: when the Monitor's registration is over and the Register Service
\* knows no monitor (its directory was lost in a restart, or it could not be
\* reached when the Monitor started), the Monitor eventually registers
\* again, so that agents asking afterwards can be given its address.
C12_MonitorRegistersAgain ==
  ((mreg \in {"done", "failed"}) /\ registered_servers = <<>>)
    ~> (registered_servers # <<>>)

\* C13: when the frame the Register Service handled last was a SERVER_ONLINE
\* registering address M and the frame it handles now is a CLIENT_REGIST, the
\* reply put on the agent's channel carries exactly M.
C13_ReplyCarriesRegistered ==
  [][\A k \in RegPeers :
       ( /\ rhpc[k] = "recv"
         /\ rwire[k] # <<>>
         /\ Head(rwire[k]).type = "CLIENT_REGIST"
         /\ last_handled.type = "SERVER_ONLINE"
         /\ last_handled' = Head(rwire[k])
         /\ rwire'[k] = Tail(rwire[k]) )
       => rreply'[k] = Append(rreply[k], ServerReply(last_handled.ip))]_vars

\* C14: handling a CLIENT_REGIST puts the agent's name into the agent
\* directory; on the (open) channel it came from it sends exactly one reply,
\* carrying a known monitor address, when a monitor is known, and nothing
\* when none is known; nothing is sent on any other channel.
C14_RegistUpsertsAndReplies ==
  [][\A k \in RegPeers :
       ( /\ rhpc[k] = "recv"
         /\ rwire[k] # <<>>
         /\ Head(rwire[k]).type = "CLIENT_REGIST"
         /\ last_handled' = Head(rwire[k])
         /\ rwire'[k] = Tail(rwire[k]) )
       => /\ register_clients' = register_clients \cup {Head(rwire[k]).name}
          /\ rconn[k] = "open" =>
               IF registered_servers # <<>>
               THEN \E ip \in Range(registered_servers) :
                      rreply'[k] = Append(rreply[k], ServerReply(ip))
               ELSE rreply'[k] = rreply[k]
          /\ \A j \in RegPeers \ {k} : rreply'[j] = rreply[j]]_vars

\* A CLIENT_REGIST was the last frame handled, two monitors are known, and
\* the one reply is waiting on the agent's channel.
C14_Witness ==
  /\ last_handled.type = "CLIENT_REGIST"
  /\ last_handled.name \in register_clients
  /\ Len(registered_servers) = 2
  /\ \E k \in RegPeers :
       /\ rconn[k] = "open"
       /\ rreply[k] = <<ServerReply(Head(registered_servers))>>

InAttempt(a) == apc[a] \in {"loop", "regSend", "regRecv", "connect"}

C16_FailureThenFixedRetryDelay ==
  /\ [][\A a \in Agents :
          /\ (InAttempt(a) /\ apc'[a] = "retrySleep")
               => timer'[a] = RetryDelay
          /\ (apc[a] = "regRecv" /\ apc'[a] # "regRecv")
               => \/ /\ rreply[a] # <<>>
                     /\ DecodesToServer(Head(rreply[a]))
                     /\ apc'[a] = "connect"
                  \/ apc'[a] = "retrySleep"
          /\ apc[a] = "retrySleep"
               => \/ apc'[a] = "retrySleep" /\ timer'[a] \in {timer[a], timer[a] - 1}
                  \/ apc'[a] = "loop" /\ timer[a] = 0]_vars
  /\ \A a \in Agents : (apc[a] = "retrySleep") ~> (apc[a] = "loop" /\ running[a])

\* An Agent waits in the retry delay, with time still to go, after a reply
\* it could not decode.
C16_Witness ==
  \E a \in Agents :
    /\ apc[a] = "retrySleep"
    /\ timer[a] \in 1..(RetryDelay - 1)
    /\ register_clients # {}
    /\ server[a] = NoServer

\* C17: when the telemetry channel of a streaming Agent is closed, whichever
\* of the report loop's send and the receive loop sees it first, the Agent
\* eventually has left Streaming with the report loop stopped and the channel
\* released, and is back at the start of a discovery (unless it is being
\* shut down).
C17_ChannelErrorTearsDownStreaming ==
  \A a \in Agents :
    (apc[a] = "recv" /\ chan[tchan[a]] = "closed")
      ~> \/ apc[a] = "loop" /\ ~ReportLoopAlive(a) /\ tchan[a] = 0
         \/ ~running[a]
         \/ apc[a] = "stopped"

\* The report loop's send failed on the closed channel first (it waits its
\* error delay), then the receive loop saw the closure and asked for the
\* cancellation.
C17_Witness ==
  \E a \in Agents :
    /\ apc[a] = "join"
    /\ running[a]
    /\ rpc[a] = "errSleep"
    /\ chan[tchan[a]] = "closed"

\* C18: a tick of the report loop that fails while the telemetry channel is
\* open changes nothing but the report loop: the channel stays open, the
\* Agent stays where it is in Streaming, no frame is sent, and the loop
\* waits 1 time unit; it leaves that wait for its next tick only when the
\* unit has passed (or when it is cancelled), and the unit does pass.
C18_TickErrorSwallowed ==
  /\ [][\A a \in Agents :
          /\ ( /\ tchan[a] # 0
               /\ chan[tchan[a]] = "open"
               /\ rpc[a] \in {"start", "sleep", "errSleep"}
               /\ rtimer[a] = 0
               /\ rpc'[a] = "errSleep"
               /\ (rpc[a] # "errSleep" \/ rtimer'[a] # 0) )
               => /\ chan' = chan
                  /\ wire' = wire
                  /\ apc' = apc
                  /\ tchan' = tchan
                  /\ rtimer'[a] = 1
          /\ (rpc[a] = "errSleep" /\ rtimer[a] > 0)
               => \/ rpc'[a] = "errSleep" /\ rtimer'[a] \in {rtimer[a], rtimer[a] - 1}
                  \/ rpc'[a] = "done"]_vars
  /\ \A a \in Agents : (rpc[a] = "errSleep") ~> (rtimer[a] = 0)

\* A tick has failed on an open channel: the loop waits its unit, the Agent
\* is still in its receive loop.
C18_Witness ==
  \E a \in Agents :
    /\ rpc[a] = "errSleep"
    /\ rtimer[a] = 1
    /\ apc[a] = "recv"
    /\ running[a]
    /\ chan[tchan[a]] = "open"
    /\ wire[tchan[a]] = <<>>

\* C19: the samples stored from one agent's channel stand in the Report
\* Store in the order in which the agent generated and sent them, however
\* the handlers of the channels interleave.
C19_PerChannelOrderKept ==
  \A i, j \in DOMAIN db_records :
    (i < j /\ db_records[i].name = db_records[j].name)
      => db_records[i].ts < db_records[j].ts

\* Two samples of one agent are stored, with a sample of another agent
\* stored between them.
C19_Witness ==
  /\ Len(db_records) >= 3
  /\ db_records[1].name = db_records[3].name
  /\ db_records[1].name # db_records[2].name
  /\ db_records[3].ts = 2

C21_MalformedAnsweredOnce ==
  [][\A k \in RegPeers :
       ( /\ rhpc[k] = "recv"
         /\ rconn[k] = "open"
         /\ rwire[k] # <<>>
         /\ last_handled' = Head(rwire[k])
         /\ rwire'[k] = Tail(rwire[k]) )
       => /\ Head(rwire[k]).type = "MALFORMED"
               => /\ rreply'[k] = Append(rreply[k], ErrorPayload)
                  /\ \A j \in RegPeers \ {k} : rreply'[j] = rreply[j]
                  /\ registered_servers' = registered_servers
                  /\ register_clients' = register_clients
                  /\ rconn'[k] = "open"
                  /\ rhpc'[k] = "recv"
          /\ (ErrorPayload \in Range(rreply[k])
                /\ Head(rwire[k]).type = "SERVER_ONLINE")
               => /\ Head(rwire[k]).ip \in Range(registered_servers')
                  /\ rhpc'[k] = "recv"
          /\ (ErrorPayload \in Range(rreply[k])
                /\ Head(rwire[k]).type = "CLIENT_ONLINE")
               => /\ Head(rwire[k]).name \in register_clients'
                  /\ rhpc'[k] = "recv"]_vars

\* Only one peer has connected; its malformed frame was answered with the
\* error payload, which it has not read yet, and the SERVER_ONLINE it sent
\* afterwards on the same channel has been entered.
C21_Witness ==
  \E k \in RegPeers :
    /\ \A j \in RegPeers \ {k} : rconn[j] = "none"
    /\ rconn[k] = "open"
    /\ rhpc[k] = "recv"
    /\ rreply[k] = <<ErrorPayload>>
    /\ last_handled.type = "SERVER_ONLINE"
    /\ registered_servers = <<last_handled.ip>>
    /\ register_clients = {}

\* C22: when the Monitor handles a malformed frame on an open telemetry
\* channel and goes on with its receive loop, nothing is sent back to the
\* agent for it, the session's state and the online listing are unchanged,
\* and the channel stays open.
C22_MalformedDroppedSilently ==
  [][\A c \in Chans :
       ( /\ hpc[c] = "recv" /\ hpc'[c] = "recv"
         /\ chan[c] = "open"
         /\ wire[c] # <<>> /\ wire'[c] = Tail(wire[c])
         /\ Head(wire[c]).type = "MALFORMED" )
       => /\ replies'[c] = replies[c]
          /\ client_name'[c] = client_name[c]
          /\ ListOnline' = ListOnline
          /\ chan'[c] = "open"]_vars

\* C23: a frame whose type tag the receiver does not know (for the Monitor
\* also CLIENT_REGIST and SERVER_ONLINE, for the Register Service
\* CLIENT_REPORT) is consumed without any effect: no reply on any channel, no
\* change of a directory, of the session or of the store, and the receiver
\* stays in the receive loop of the channel, which it does not close.
C23_UnknownTagIgnored ==
  [][/\ \A c \in Chans :
          ( /\ hpc[c] = "recv"
            /\ wire[c] # <<>> /\ wire'[c] = Tail(wire[c])
            /\ Head(wire[c]).type
                 \notin {"CLIENT_ONLINE", "CLIENT_REPORT", "MALFORMED"} )
          => /\ replies' = replies
             /\ monVars' = monVars
             /\ client_name' = client_name
             /\ chan' = chan
             /\ hpc'[c] = "recv"
     /\ \A k \in RegPeers :
          ( /\ rhpc[k] = "recv"
            /\ rwire[k] # <<>> /\ rwire'[k] = Tail(rwire[k])
            /\ last_handled' = Head(rwire[k])
            /\ Head(rwire[k]).type
                 \notin {"CLIENT_REGIST", "CLIENT_ONLINE", "SERVER_ONLINE",
                         "MALFORMED"} )
          => /\ rreply' = rreply
             /\ registered_servers' = registered_servers
             /\ register_clients' = register_clients
             /\ rconn' = rconn
             /\ rhpc'[k] = "recv"]_vars

\* On a session that is online the Monitor has consumed two frames with
\* unknown tags, and the Register Service, knowing a monitor, has consumed a
\* CLIENT_REPORT; both channels are open and nothing has been sent on them.
C23_Witness ==
  /\ \E c \in Chans :
       /\ sent[c] = 2
       /\ wire[c] = <<>>
       /\ chan[c] = "open" /\ hpc[c] = "recv"
       /\ replies[c] = 0
       /\ client_name[c] \in ListOnline
  /\ \E k \in Agents :
       /\ last_handled = RegUnknownMsg
       /\ registered_servers # <<>>
       /\ rconn[k] = "open" /\ rhpc[k] = "recv"
       /\ rreply[k] = <<>>

\* C24: when the store rejects the write of the sample of a CLIENT_REPORT
\* the Monitor handles, nothing is stored and nothing else changes: the
\* channel is left as it is, the handler stays in its receive loop, nothing
\* is sent to the agent, and the online listing is the same; a CLIENT_REPORT
\* handled while the store accepts writes is appended as usual, whatever was
\* rejected before.
C24_RejectedSampleSkipped ==
  [][\A c \in Chans :
       ( /\ hpc[c] = "recv"
         /\ wire[c] # <<>> /\ wire'[c] = Tail(wire[c])
         /\ Head(wire[c]).type = "CLIENT_REPORT" )
       => IF store_ok /\ RecordAccepted(Head(wire[c]))
          THEN /\ db_records' = RecordCreate(db_records, Head(wire[c]))
               /\ hpc'[c] = "recv"
          ELSE /\ db_records' = db_records
               /\ chan' = chan
               /\ hpc'[c] = "recv"
               /\ replies' = replies
               /\ client_name' = client_name
               /\ registered_clients' = registered_clients
               /\ ListOnline' = ListOnline]_vars

\* The first sample of an online agent was rejected and its second sample,
\* on the same channel, is stored; the channel is open, the agent is listed
\* online and nothing was sent to it.
C24_Witness ==
  \E c \in Chans :
    /\ sent[c] = 2
    /\ wire[c] = <<>>
    /\ chan[c] = "open" /\ hpc[c] = "recv"
    /\ replies[c] = 0
    /\ client_name[c] = SampleName(c)
    /\ SampleName(c) \in ListOnline
    /\ \E i \in DOMAIN db_records :
         db_records[i].name = SampleName(c) /\ db_records[i].ts = 2
    /\ ~\E i \in DOMAIN db_records :
         db_records[i].name = SampleName(c) /\ db_records[i].ts = 1

C26_LatestSamplePerAgent ==
  LET Latest(n) ==
        {i \in RowsOf(db_records, n) :
           \A j \in RowsOf(db_records, n) :
             \/ db_records[j].ts < db_records[i].ts
             \/ db_records[j].ts = db_records[i].ts /\ j <= i}
  IN db_records # <<>>
       => /\ get_all_latest(db_records).error = ""
          /\ get_all_latest(db_records).rows
               = UNION {Latest(db_records[i].name) : i \in DOMAIN db_records}
          /\ \A i \in DOMAIN db_records :
               get_latest_by_client(db_records, db_records[i].name)
                 = Latest(db_records[i].name)

\* C27: handling a SERVER_ONLINE enters the monitor's address into the
\* monitor directory, keeps the entries of the other addresses, sends no
\* reply on any channel and leaves the agent directory as it is; the
\* directory never holds two entries for one address.
C27_ServerOnlineUpserts ==
  /\ [][\A k \in RegPeers :
          ( /\ rhpc[k] = "recv"
            /\ rwire[k] # <<>> /\ rwire'[k] = Tail(rwire[k])
            /\ last_handled' = Head(rwire[k])
            /\ Head(rwire[k]).type = "SERVER_ONLINE" )
          => /\ Range(registered_servers')
                  = Range(registered_servers) \cup {Head(rwire[k]).ip}
             /\ Len(registered_servers')
                  = Cardinality(Range(registered_servers'))
             /\ rreply' = rreply
             /\ register_clients' = register_clients
             /\ rhpc'[k] = "recv"]_vars
  /\ [](\A i, j \in DOMAIN registered_servers :
          registered_servers[i] = registered_servers[j] => i = j)

\* The address registered first has been registered again after a second
\* address: two entries, no reply waiting anywhere, an agent known.
C27_Witness ==
  /\ Len(registered_servers) = 2
  /\ last_handled = ServerOnlineMsg(registered_servers[1])
  /\ register_clients # {}
  /\ \A k \in RegPeers : rreply[k] = <<>>

\* C28: once start has drawn the Agent's name, the name never changes, and
\* every frame the Agent puts on a channel carries it: CLIENT_REGIST on its
\* register channel, CLIENT_ONLINE and CLIENT_REPORT on the telemetry channel
\* it holds; so the Register Service and the Monitor have seen no other name.
C28_AgentNameStable ==
  /\ [][\A a \in Agents :
          /\ apc[a] # "init" => aname'[a] = aname[a]
          /\ Len(rwire'[a]) = Len(rwire[a]) + 1
               => /\ rwire'[a][Len(rwire'[a])].type = "CLIENT_REGIST"
                  /\ rwire'[a][Len(rwire'[a])].name = aname[a]
          /\ \A c \in Chans :
               (tchan[a] = c /\ Len(wire'[c]) = Len(wire[c]) + 1)
                 => /\ wire'[c][Len(wire'[c])].type
                         \in {"CLIENT_ONLINE", "CLIENT_REPORT"}
                    /\ wire'[c][Len(wire'[c])].name = aname[a]]_vars
  /\ [](/\ register_clients \subseteq {aname[a] : a \in Agents}
        /\ \A c \in Chans : announced[c] \subseteq {aname[a] : a \in Agents})

\* The Agent is on its second telemetry channel after the first one closed:
\* it has announced itself on both, and a report is on its way.
C28_Witness ==
  \E a \in Agents : \E c \in Chans :
    /\ c # tchan[a]
    /\ tchan[a] # 0
    /\ chan[c] = "closed"
    /\ announced[c] = {aname[a]}
    /\ announced[tchan[a]] = {aname[a]}
    /\ register_clients = {aname[a]}
    /\ wire[tchan[a]] = <<get_system_report(aname[a])>>

\* C29: the Monitor stores nothing for a CLIENT_REPORT it handles on a
\* channel on which no CLIENT_ONLINE has been received (a channel still in
\* Connecting).
C29_StoredOnlyWhenOnline ==
  [][\A c \in Chans :
       ( /\ hpc[c] = "recv" /\ hpc'[c] = "recv"
         /\ wire[c] # <<>> /\ wire'[c] = Tail(wire[c])
         /\ Head(wire[c]).type = "CLIENT_REPORT"
         /\ client_name[c] = NoName
         /\ announced[c] = {} )
       => db_records' = db_records]_vars

\* C30: a sample the Monitor stores for a CLIENT_REPORT handled on a channel
\* that has announced an agent with CLIENT_ONLINE carries the name of that
\* agent.
C30_StoredUnderAnnouncedName ==
  [][\A c \in Chans :
       ( /\ hpc[c] = "recv" /\ hpc'[c] = "recv"
         /\ wire[c] # <<>> /\ wire'[c] = Tail(wire[c])
         /\ Head(wire[c]).type = "CLIENT_REPORT"
         /\ client_name[c] # NoName
         /\ db_records' # db_records )
       => /\ Len(db_records') = Len(db_records) + 1
          /\ db_records'[Len(db_records')].name = client_name[c]]_vars

\* C31: when the Monitor processes the closure of a telemetry channel, every
\* agent name that was announced on it by CLIENT_ONLINE and is announced on
\* no other open channel is not listed online afterwards, also when several
\* names were announced on the channel.
C31_EveryAnnouncedNameOffline ==
  [][\A c \in Chans :
       (hpc[c] = "recv" /\ hpc'[c] = "returned")
         => \A n \in announced[c] :
              (~\E d \in Chans \ {c} : chan[d] = "open" /\ n \in announced[d])
                => n \notin ListOnline']_vars

\* C32: in every reachable state, also after a write to the clients table
\* has failed, no agent name is returned both by list-online and by the
\* offline listing.
C32_OnlineOfflineDisjoint ==
  ListOnline \cap ListOffline = {}

\* C33: in every reachable state the Monitor's in-memory offline list holds
\* at most one entry for an agent name.
C33_OfflineListNoDuplicates ==
  \A i, j \in DOMAIN offline_clients :
    offline_clients[i].name = offline_clients[j].name => i = j

\* C34: a delete-agent that succeeds takes the name out of list-online and
\* out of the offline listing, and a name that is in neither listing comes
\* into one of them only when the Monitor handles a CLIENT_ONLINE for that
\* name: the closure of a channel that had announced it does not bring it
\* back.
C34_DeletedStaysGone ==
  [][\A n \in Names :
       /\ (n \in DOMAIN db_clients /\ n \notin DOMAIN db_clients')
            => n \notin (ListOnline' \cup ListOffline')
       /\ ( /\ n \notin (ListOnline \cup ListOffline)
            /\ n \in (ListOnline' \cup ListOffline') )
            => \E c \in Chans :
                 /\ hpc[c] = "recv"
                 /\ wire[c] # <<>> /\ wire'[c] = Tail(wire[c])
                 /\ Head(wire[c]) = ClientOnlineMsg(n)]_vars

\* An agent was deleted after it had announced itself on a channel; that
\* channel has closed since, and the Monitor is about to process the closure.
\* The name is in neither listing.
C34_Witness ==
  \E c \in Chans :
    /\ client_name[c] # NoName
    /\ client_name[c] \notin DOMAIN db_clients
    /\ client_name[c] \notin DOMAIN registered_clients
    /\ client_name[c] \notin (ListOnline \cup ListOffline)
    /\ chan[c] = "closed" /\ hpc[c] = "recv" /\ wire[c] = <<>>
    /\ c \in Range(active_connections)

\* C35: the Agent comes to the opening of a telemetry channel only from a
\* discovery that has just read a monitor's address, which is the address it
\* then holds; it opens a telemetry channel only from there, and from there
\* it either opens the channel or fails into the retry delay.  A discovery
\* that fails leads to the retry delay and from it to a new discovery, never
\* to a connect with the address remembered from an earlier pass.
C35_ConnectOnlyAfterDiscovery ==
  [][\A a \in Agents :
       /\ (apc[a] # "connect" /\ apc'[a] = "connect")
            => /\ apc[a] = "regRecv"
               /\ rreply[a] # <<>>
               /\ DecodesToServer(Head(rreply[a]))
               /\ server'[a] = Head(rreply[a]).ip
       /\ (tchan[a] = 0 /\ tchan'[a] # 0)
            => /\ apc[a] = "connect"
               /\ server[a] # NoServer
               /\ apc'[a] = "sendOnline"
       /\ apc[a] = "connect"
            => /\ apc'[a] \in {"connect", "sendOnline", "retrySleep"}
               /\ server'[a] = server[a]
       /\ (apc[a] = "retrySleep" /\ apc'[a] # "retrySleep")
            => apc'[a] = "loop"
       /\ (apc[a] = "loop" /\ apc'[a] # "loop")
            => apc'[a] \in {"regSend", "retrySleep", "stopped"}]_vars

\* The Agent holds an address from an earlier pass and waits in the retry
\* delay after a discovery that failed: its CLIENT_REGIST of this pass has
\* not even been handled, and it has no telemetry channel.
C35_Witness ==
  \E a \in Agents :
    /\ apc[a] = "retrySleep"
    /\ server[a] # NoServer
    /\ rwire[a] = <<ClientRegistMsg(aname[a])>>
    /\ tchan[a] = 0

\* C36: when the Monitor processes the closure of a telemetry channel on
\* which no CLIENT_ONLINE was ever received, the in-memory directory, the
\* offline list, the clients table and the records table are unchanged (so
\* are both listings); only the channel is taken out of the live
\* connections.
C36_ClosureWithoutSessionIsNeutral ==
  [][\A c \in Chans :
       ( /\ hpc[c] = "recv" /\ hpc'[c] = "returned"
         /\ client_name[c] = NoName
         /\ announced[c] = {} )
       => /\ registered_clients' = registered_clients
          /\ offline_clients' = offline_clients
          /\ db_clients' = db_clients
          /\ db_records' = db_records
          /\ ListOnline' = ListOnline
          /\ ListOffline' = ListOffline
          /\ active_connections' = RemoveFirst(active_connections, c)
          /\ c \notin Range(active_connections')]_vars

\* A channel that never announced an agent has closed and its closure has
\* been processed, while an agent is online on another channel: that agent
\* is still listed online, nobody is listed offline, and only the other
\* channel is a live connection.
C36_Witness ==
  \E c, d \in Chans :
    /\ hpc[c] = "returned"
    /\ client_name[c] = NoName
    /\ announced[c] = {}
    /\ active_connections = <<d>>
    /\ chan[d] = "open"
    /\ client_name[d] \in ListOnline
    /\ ListOffline = {}
    /\ offline_clients = <<>>

====
